---- MODULE Spec2Model ----
(***************************************************************************)
(* A model of the cue_sheet crate: the Time value type (src/parser/mod.rs),*)
(* the tracklist assembler (src/tracklist.rs), the lexer                   *)
(* (src/parser/tokenization.rs), the enum parsers (src/parser/mod.rs) and  *)
(* the command parser (src/parser/command.rs).                             *)
(*                                                                         *)
(* Strings that the code inspects character by character are sequences of  *)
(* characters, each a one-character string (QUOTE, BOM and the characters  *)
(* a TLA+ string cannot spell are named);                                  *)
(* Option<T> is <<>> (None) or <<x>> (Some(x));     *)
(* Result<T, Error> is [ok |-> TRUE, val |-> x] or [ok |-> FALSE, err |-> m].*)
(***************************************************************************)
EXTENDS Integers, Sequences, FiniteSets, TLC

VARIABLES
    \* ---- Time harness: arguments and results of the Time functions ----
    t_self,     \* the Time a method is called on
    t_rhs,      \* the right-hand side of `self - rhs`
    t_from,     \* the i64 argument of Time::from_frames
    t_op,       \* which function was applied ("init" before any)
    t_out,      \* the Time returned
    t_s,        \* the String produced by Display
    t_parsed,   \* the Result<Time, Error> returned by from_str
    \* ---- Tracklist::parse (assembly stage) ----
    sheet,      \* the Vec<Command> parse_cue returned, as it was returned
    commands,   \* the Vec<Command> being drained
    pc,         \* which loop the control is in
    performer,  \* Tracklist::parse local
    title,      \* Tracklist::parse local
    files,      \* Tracklist::parse local
    file,       \* TrackFile::consume locals: name, format, tracks, last_time
    cur,        \* Track::consume locals: number, track_type, title, performer, index
    taken,      \* commands the running Track::consume call has removed
    blocks,     \* per track of `file.tracks`, the commands its call removed
    raised,     \* the Err values returned by the consume calls so far
    result,     \* what Tracklist::parse returned (<<>> while it runs)
    \* ---- tokenize ----
    chars,      \* Reader::chars, the source text
    position,   \* Reader::position, counted from 0
    tokens,     \* tokenize local
    spans,      \* per token, where its recognizer started and the text it read
    lex_pc,     \* "start", "loop" or "done"
    lex_result, \* what tokenize returned (<<>> while it runs)
    \* ---- harness of the FromStr impls of the enums ----
    e_in,       \* the &str argument
    e_op,       \* which from_str was applied ("init" before any)
    e_out,      \* the Result returned
    \* ---- parse_cue (command stage) ----
    cue_input,    \* the Vec<Token> tokenize returned, as it was returned
    cue_tokens,   \* parse_cue local `tokens`, being drained
    cue_commands, \* parse_cue local `commands`
    consumed,     \* per Command::consume call, the tokens it took for itself
    cue_pc,       \* "loop" or "done"
    cue_result    \* what parse_cue returned (<<>> while it runs)

timeVars == <<t_self, t_rhs, t_from, t_op, t_out, t_s, t_parsed>>
asmVars  == <<sheet, commands, pc, performer, title, files, file, cur, taken,
              blocks, raised, result>>
lexVars  == <<chars, position, tokens, spans, lex_pc, lex_result>>
enumVars == <<e_in, e_op, e_out>>
cueVars  == <<cue_input, cue_tokens, cue_commands, consumed, cue_pc, cue_result>>
vars     == <<timeVars, asmVars, lexVars, enumVars, cueVars>>

None == <<>>
Some(x) == <<x>>
Ok(x) == [ok |-> TRUE, val |-> x]
Err(m) == [ok |-> FALSE, err |-> m]

-----------------------------------------------------------------------------
(* Bounds of the model.                                                    *)

\* minutes of the Times the frame round trip is exercised on: 0..MaxMins
MaxMins == 1
\* minutes of the Times the display round trip is exercised on: 0..MaxDispMins
MaxDispMins == 100
\* longest source text of arbitrary characters handed to the lexer
MaxSrc == 5
\* longest sequence of arbitrary commands handed to the assembler
MaxCmds == 4
\* most track-level commands after the File command of a one-file sheet
MaxBody == 6
\* longest sequence of arbitrary tokens handed to the command parser
MaxToks == 4

-----------------------------------------------------------------------------
(* Integer arithmetic as Rust does it: `/` truncates toward zero and `%`   *)
(* takes the sign of the dividend.                                         *)

RustDiv(a, b) == IF a >= 0 THEN a \div b ELSE -((-a) \div b)
RustRem(a, b) == a - b * RustDiv(a, b)

\* `x as i8`: keep the low 8 bits, read as two's complement
AsI8(x) == LET m == x % 256 IN IF m >= 128 THEN m - 256 ELSE m

-----------------------------------------------------------------------------
(* Time (src/parser/mod.rs)                                                *)

FPS == 75

new(minutes, seconds, frames) ==
    [mins |-> minutes, secs |-> seconds, frames |-> frames]

total_frames(self) == (self.mins * 60 + self.secs) * FPS + self.frames

\* a plausible slip: seconds reduced modulo FPS instead of 60
from_frames_mod75(from) ==
    LET frames   == RustRem(from, FPS)
        secs_all == RustDiv(from, FPS)
        secs     == RustRem(secs_all, FPS)
        mins     == RustDiv(secs_all, 60)
    IN  [mins |-> mins, secs |-> AsI8(secs), frames |-> AsI8(frames)]

\* `mins as i32` keeps the value: every frame count of the model is far
\* below 2^31 * 4500.
from_frames(from) ==
    LET frames   == RustRem(from, FPS)
        secs_all == RustDiv(from, FPS)
        secs     == RustRem(secs_all, 60)
        mins     == RustDiv(secs_all, 60)
    IN  [mins |-> mins, secs |-> AsI8(secs), frames |-> AsI8(frames)]

sub(self, rhs) ==
    LET left  == total_frames(self)
        right == total_frames(rhs)
        diff  == left - right
    IN  from_frames(diff)

DIGITS == <<"0", "1", "2", "3", "4", "5", "6", "7", "8", "9">>

IsDigit(c) == \E i \in 1..10 : DIGITS[i] = c
DigitVal(c) == (CHOOSE i \in 1..10 : DIGITS[i] = c) - 1

\* the decimal digits of n >= 0
RECURSIVE Decimal(_)
Decimal(n) ==
    IF n < 10 THEN <<DIGITS[n + 1]>>
    ELSE Decimal(n \div 10) \o <<DIGITS[(n % 10) + 1]>>

\* format!("{:02}", n): sign-aware zero padding to a minimum width of 2
Pad02(n) ==
    LET body == IF n < 0 THEN <<"-">> \o Decimal(-n) ELSE Decimal(n)
    IN  IF Len(body) >= 2 THEN body ELSE <<"0">> \o body

\* a plausible slip: the minutes written without a minimum width
fmt_unpadded(self) ==
    (IF self.mins < 0 THEN <<"-">> \o Decimal(-self.mins) ELSE Decimal(self.mins))
        \o <<":">> \o Pad02(self.secs) \o <<":">> \o Pad02(self.frames)

\* impl Display for Time
fmt(self) ==
    Pad02(self.mins) \o <<":">> \o Pad02(self.secs) \o <<":">> \o Pad02(self.frames)

\* the value of a non-empty run of digits
RECURSIVE DigitsVal(_)
DigitsVal(w) ==
    IF Len(w) = 0 THEN 0
    ELSE 10 * DigitsVal(SubSeq(w, 1, Len(w) - 1)) + DigitVal(w[Len(w)])

\* str::parse::<i32>() and str::parse::<i8>() on the short slices from_str
\* takes: an optional sign, then at least one digit, nothing else.
ParseInt(w) ==
    LET signed == Len(w) > 0 /\ w[1] \in {"+", "-"}
        digits == IF signed THEN Tail(w) ELSE w
    IN  IF Len(digits) = 0 \/ \E i \in 1..Len(digits) : ~IsDigit(digits[i])
        THEN Err("ParseIntError")
        ELSE Ok(IF signed /\ w[1] = "-" THEN -DigitsVal(digits) ELSE DigitsVal(digits))

\* the code point U+FEFF
BOM == "BOM"

\* the White_Space code points that a TLA+ string cannot spell
VT   == "U+000B"
NEL  == "U+0085"
NBSP == "U+00A0"

\* the White_Space code points of three UTF-8 bytes
WideSpaces ==
    {"U+1680", "U+2000", "U+2001", "U+2002", "U+2003", "U+2004", "U+2005",
     "U+2006", "U+2007", "U+2008", "U+2009", "U+200A", "U+2028", "U+2029",
     "U+202F", "U+205F", "U+3000"}

\* char::is_whitespace: the code points with the Unicode property White_Space
White_Space == {"\t", "\n", VT, "\f", "\r", " ", NEL, NBSP} \cup WideSpaces

\* a character of four UTF-8 bytes (U+1D11E)
CLEF == "U+1D11E"

\* letters outside ASCII that have an upper case: the dotless i, the long s,
\* the sharp s, the e with an acute accent (and its capital)
DOTLESS_I     == "U+0131"
LONG_S        == "U+017F"
SHARP_S       == "U+00DF"
E_ACUTE       == "U+00E9"
CAPITAL_E_ACUTE == "U+00C9"
\* the ligatures ff, fi, fl, ffi, ffl, long-s-t and st (U+FB00..U+FB06)
Ligatures == {"U+FB00", "U+FB01", "U+FB02", "U+FB03", "U+FB04", "U+FB05", "U+FB06"}

\* char::len_utf8 on the characters of the model
len_utf8(c) ==
    IF c \in {NEL, NBSP, DOTLESS_I, LONG_S, SHARP_S, E_ACUTE, CAPITAL_E_ACUTE} THEN 2
    ELSE IF c = BOM \/ c \in WideSpaces \/ c \in Ligatures THEN 3
    ELSE IF c = CLEF THEN 4
    ELSE 1

\* str::len(): the length in bytes
RECURSIVE ByteLen(_)
ByteLen(s) == IF Len(s) = 0 THEN 0 ELSE len_utf8(s[1]) + ByteLen(Tail(s))

\* an operation that panics instead of returning
Panic(m) == [ok |-> FALSE, panic |-> m]

\* the byte slice s[from..to]: the characters between two byte offsets, a
\* panic when an offset is inside a character
ByteSlice(s, from, to) ==
    LET at(b) == {i \in 0..Len(s) : ByteLen(SubSeq(s, 1, i)) = b}
    IN  IF at(from) = {} \/ at(to) = {}
        THEN Panic("byte index is not a char boundary")
        ELSE Ok(SubSeq(s, (CHOOSE i \in at(from) : TRUE) + 1,
                          CHOOSE i \in at(to) : TRUE))

\* impl FromStr for Time. The length test counts bytes, the two separator
\* tests count characters (nth(..).unwrap() panics past the last one, and
\* `||` skips the second test when the first one fails), the three slices
\* count bytes again and are taken in the order mins, secs, frames.
from_str(s) ==
    IF ByteLen(s) # 8 THEN Err("Time was not 8 chars long.")
    ELSE IF Len(s) < 3 THEN Panic("called Option::unwrap() on a None value")
    ELSE IF s[3] # ":" THEN Err("Time was not properly formatted.")
    ELSE IF Len(s) < 6 THEN Panic("called Option::unwrap() on a None value")
    ELSE IF s[6] # ":" THEN Err("Time was not properly formatted.")
    ELSE LET s02    == ByteSlice(s, 0, 2)
             mins   == ParseInt(s02.val)
             s35    == ByteSlice(s, 3, 5)
             secs   == ParseInt(s35.val)
             s68    == ByteSlice(s, 6, 8)
             frames == ParseInt(s68.val)
         IN  IF ~s02.ok THEN s02
             ELSE IF ~mins.ok THEN mins
             ELSE IF ~s35.ok THEN s35
             ELSE IF ~secs.ok THEN secs
             ELSE IF ~s68.ok THEN s68
             ELSE IF ~frames.ok THEN frames
             ELSE Ok([mins |-> mins.val, secs |-> secs.val, frames |-> frames.val])

-----------------------------------------------------------------------------
(* Harness of the Time functions: Init draws the arguments, one action per *)
(* function applies it.                                                    *)

Zero == new(0, 0, 0)

\* every valid Time of at most MaxMins minutes
ValidTimes ==
    {new(m, s, f) : m \in 0..MaxMins, s \in 0..59, f \in 0..74}

\* operands of the subtraction: the carries around a second and a minute
SubSamples ==
    {new(0, 0, 0), new(0, 0, 1), new(0, 0, 74), new(0, 1, 0),
     new(0, 59, 74), new(1, 0, 0), new(1, 0, 5)}

\* Times to display: every minute count up to MaxDispMins, the seconds and
\* frames at the one-digit / two-digit border and at their maxima
DispTimes ==
    {new(m, s, f) : m \in 0..MaxDispMins, s \in {0, 9, 10, 59}, f \in {0, 9, 10, 74}}

\* frame counts handed to from_frames (the negative ones too)
FromRange == (-(MaxMins + 1) * 60 * FPS)..((MaxMins + 1) * 60 * FPS - 1)

TimeIdle ==
    /\ t_self = Zero /\ t_rhs = Zero /\ t_from = 0 /\ t_op = "init"
    /\ t_out = Zero /\ t_s = <<>> /\ t_parsed = None

AsmIdle ==
    /\ sheet = <<>> /\ commands = <<>> /\ pc = "idle"
    /\ performer = None /\ title = None /\ files = <<>>
    /\ file = None /\ cur = None /\ taken = <<>> /\ blocks = <<>>
    /\ raised = <<>> /\ result = None

LexIdle ==
    /\ chars = <<>> /\ position = 0 /\ tokens = <<>> /\ spans = <<>>
    /\ lex_pc = "idle" /\ lex_result = None

CueIdle ==
    /\ cue_input = <<>> /\ cue_tokens = <<>> /\ cue_commands = <<>>
    /\ consumed = <<>> /\ cue_pc = "idle" /\ cue_result = None

EnumIdle == e_in = <<>> /\ e_op = "idle" /\ e_out = None

\* strings handed to from_str: of 8 bytes or not, of one-byte characters or
\* not, with the separators in place or not
ParseSamples ==
    {<<"0", "0", ":", "0", "0", ":", "0", "0">>,
     <<"0", "1", ":", "0", "2", ":", "0", "3">>,
     <<"0", "0", ":", "0", "0", ":", "0">>,
     <<"0", "0", "-", "0", "0", ":", "0", "0">>,
     <<"0", "0", ":", "0", "0", "-", "0", "0">>,
     <<"0", "0", ":", "x", "0", ":", "0", "0">>,
     <<BOM, "0", ":", "0", "0", ":">>,
     <<"0", BOM, ":", "0", "0", ":">>,
     <<"0", "0", ":", BOM, "0", ":">>,
     <<"0", "0", ":", "0", "0", ":", NBSP>>,
     <<"0", "0", ":", NBSP, "0", ":", "0">>,
     <<"0", "0", ":", "0", NBSP, ":", "0">>,
     <<BOM, BOM, ":", "a">>,
     <<BOM, BOM, "a", "a">>,
     <<CLEF, CLEF>>,
     <<BOM, "0", "0", ":", "0", "0", ":", "0">>}

InitTime ==
    /\ \/ t_self \in ValidTimes /\ t_rhs = Zero /\ t_from = 0 /\ t_s = <<>>
       \/ t_self \in SubSamples /\ t_rhs \in SubSamples /\ t_from = 0 /\ t_s = <<>>
       \/ t_self \in DispTimes /\ t_rhs = Zero /\ t_from = 0 /\ t_s = <<>>
       \/ t_self = Zero /\ t_rhs = Zero /\ t_from \in FromRange /\ t_s = <<>>
       \/ t_self = Zero /\ t_rhs = Zero /\ t_from = 0 /\ t_s \in ParseSamples
    /\ t_op = "init" /\ t_out = Zero /\ t_parsed = None
    /\ AsmIdle
    /\ LexIdle
    /\ EnumIdle
    /\ CueIdle

\* Time::from_frames(t.total_frames())
ApplyRoundTrip ==
    /\ t_op = "init"
    /\ t_op' = "round_trip"
    /\ t_out' = from_frames(total_frames(t_self))
    /\ UNCHANGED <<t_self, t_rhs, t_from, t_s, t_parsed, asmVars, lexVars, enumVars, cueVars>>

\* Time::from_frames(n)
ApplyFromFrames ==
    /\ t_op = "init"
    /\ t_op' = "from_frames"
    /\ t_out' = from_frames(t_from)
    /\ UNCHANGED <<t_self, t_rhs, t_from, t_s, t_parsed, asmVars, lexVars, enumVars, cueVars>>

\* self - rhs
ApplySub ==
    /\ t_op = "init"
    /\ t_op' = "sub"
    /\ t_out' = sub(t_self, t_rhs)
    /\ UNCHANGED <<t_self, t_rhs, t_from, t_s, t_parsed, asmVars, lexVars, enumVars, cueVars>>

\* Time::from_str(&t.to_string())
ApplyDisplayParse ==
    /\ t_op = "init"
    /\ t_op' = "display_parse"
    /\ t_s' = fmt(t_self)
    /\ t_parsed' = from_str(fmt(t_self))
    /\ UNCHANGED <<t_self, t_rhs, t_from, t_out, asmVars, lexVars, enumVars, cueVars>>

\* Time::from_str(s)
ApplyFromStr ==
    /\ t_op = "init"
    /\ t_op' = "from_str"
    /\ t_parsed' = from_str(t_s)
    /\ UNCHANGED <<t_self, t_rhs, t_from, t_out, t_s, asmVars, lexVars, enumVars, cueVars>>

NextTime ==
    \/ ApplyRoundTrip
    \/ ApplyFromFrames
    \/ ApplySub
    \/ ApplyDisplayParse
    \/ ApplyFromStr

SpecTime == InitTime /\ [][NextTime]_vars

-----------------------------------------------------------------------------
(* Command (src/parser/command.rs): the variants the assembler tells apart.*)

Catalog(c)         == [kind |-> "Catalog", s |-> c]
Cdtextfile(f)      == [kind |-> "Cdtextfile", s |-> f]
Flags(flags)       == [kind |-> "Flags", flags |-> flags]
Isrc(i)            == [kind |-> "Isrc", s |-> i]
Postgap(time)      == [kind |-> "Postgap", time |-> time]
Songwriter(w)      == [kind |-> "Songwriter", s |-> w]
Performer(p)       == [kind |-> "Performer", s |-> p]
Title(t)           == [kind |-> "Title", s |-> t]
Rem(key, value)    == [kind |-> "Rem", key |-> key, value |-> value]
File(name, format) == [kind |-> "File", name |-> name, format |-> format]
Track(num, type)   == [kind |-> "Track", number |-> num, track_type |-> type]
Index(i, time)     == [kind |-> "Index", number |-> i, time |-> time]
Pregap(time)       == [kind |-> "Pregap", time |-> time]

\* the commands the short sheets of the model are made of
CmdSamples ==
    { Performer("p"), Performer("q"), Title("a"), Title("b"), Rem("DATE", "1991"),
      File("f.wav", "Wave"), File("g.bin", "Binary"), Track(1, "Audio"),
      Index(1, new(0, 0, 10)), Index(1, new(1, 0, 5)),
      Pregap(new(0, 0, 20)) }

\* the commands the track blocks of the longer sheets are made of
BodySamples ==
    { Track(1, "Audio"), Title("a"),
      Index(1, new(0, 0, 10)), Index(1, new(1, 0, 5)),
      Pregap(new(0, 0, 20)) }

\* every command sequence of at most MaxCmds commands, and every sequence
\* of a File command followed by at most MaxBody track-level commands
Sheets ==
    UNION {[1..k -> CmdSamples] : k \in 0..MaxCmds}
    \cup
    {<<File("f.wav", "Wave")>> \o b : b \in UNION {[1..k -> BodySamples] : k \in 0..MaxBody}}

-----------------------------------------------------------------------------
(* Tracklist::parse, TrackFile::consume and Track::consume                 *)
(* (src/tracklist.rs), one action per loop iteration.                      *)

Init ==
    /\ sheet \in Sheets
    /\ commands = sheet
    /\ pc = "header"
    /\ performer = None /\ title = None /\ files = <<>>
    /\ file = None /\ cur = None /\ taken = <<>> /\ blocks = <<>>
    /\ raised = <<>> /\ result = None
    /\ TimeIdle
    /\ LexIdle
    /\ EnumIdle
    /\ CueIdle

HeadIs(kinds) == Len(commands) > 0 /\ commands[1].kind \in kinds

\* commands.remove(0), recorded for the running Track::consume call
RemoveTaken ==
    /\ commands' = Tail(commands)
    /\ taken' = Append(taken, commands[1])

\* ---- Tracklist::parse, the header loop (lines 45-62) ----

HeaderPerformer ==
    /\ pc = "header" /\ HeadIs({"Performer"})
    /\ performer' = Some(commands[1].s)
    /\ commands' = Tail(commands)
    /\ UNCHANGED <<sheet, pc, title, files, file, cur, taken, blocks, raised,
                   result, timeVars, lexVars, enumVars, cueVars>>

\* a plausible slip: the first TITLE of the header is kept
HeaderTitle_first_wins ==
    /\ pc = "header" /\ HeadIs({"Title"})
    /\ title' = IF title = None THEN Some(commands[1].s) ELSE title
    /\ commands' = Tail(commands)
    /\ UNCHANGED <<sheet, pc, performer, files, file, cur, taken, blocks, raised,
                   result, timeVars, lexVars, enumVars, cueVars>>

HeaderTitle ==
    /\ pc = "header" /\ HeadIs({"Title"})
    /\ title' = Some(commands[1].s)
    /\ commands' = Tail(commands)
    /\ UNCHANGED <<sheet, pc, performer, files, file, cur, taken, blocks, raised,
                   result, timeVars, lexVars, enumVars, cueVars>>

HeaderRem ==
    /\ pc = "header" /\ HeadIs({"Rem"})
    /\ commands' = Tail(commands)
    /\ UNCHANGED <<sheet, pc, performer, title, files, file, cur, taken, blocks,
                   raised, result, timeVars, lexVars, enumVars, cueVars>>

\* the list is empty, or `_ => break`
HeaderBreak ==
    /\ pc = "header" /\ ~HeadIs({"Performer", "Title", "Rem"})
    /\ pc' = "files"
    /\ UNCHANGED <<sheet, commands, performer, title, files, file, cur, taken,
                   blocks, raised, result, timeVars, lexVars, enumVars, cueVars>>

\* ---- Tracklist::parse, the file loop (lines 64-78) ----

Tracklist(fs, p, t) == [files |-> fs, performer |-> p, title |-> t]

\* the list is empty: Ok(Tracklist { .. })
ParseReturn ==
    /\ pc = "files" /\ Len(commands) = 0
    /\ pc' = "done"
    /\ result' = Some(Ok(Tracklist(files, performer, title)))
    /\ UNCHANGED <<sheet, commands, performer, title, files, file, cur, taken,
                   blocks, raised, timeVars, lexVars, enumVars, cueVars>>

\* a plausible slip: last_time starts as Some(00:00:00)
FileOpen_last_time_zero ==
    /\ pc = "files" /\ HeadIs({"File"})
    /\ commands' = Tail(commands)
    /\ file' = [name |-> commands[1].name, format |-> commands[1].format,
                tracks |-> <<>>, last_time |-> Some(Zero)]
    /\ blocks' = Append(blocks, <<>>)
    /\ pc' = "file"
    /\ UNCHANGED <<sheet, performer, title, files, cur, taken, raised, result,
                   timeVars, lexVars, enumVars, cueVars>>

\* TrackFile::consume removes a File command and enters its loop
FileOpen ==
    /\ pc = "files" /\ HeadIs({"File"})
    /\ commands' = Tail(commands)
    /\ file' = [name |-> commands[1].name, format |-> commands[1].format,
                tracks |-> <<>>, last_time |-> None]
    /\ blocks' = Append(blocks, <<>>)
    /\ pc' = "file"
    /\ UNCHANGED <<sheet, performer, title, files, cur, taken, raised, result,
                   timeVars, lexVars, enumVars, cueVars>>

\* TrackFile::consume removes another command and returns Err; parse
\* leaves its loop on it and returns Ok
FileReject ==
    /\ pc = "files" /\ Len(commands) > 0 /\ ~HeadIs({"File"})
    /\ commands' = Tail(commands)
    /\ raised' = Append(raised, "TrackFile::consume called but no Track command found.")
    /\ pc' = "done"
    /\ result' = Some(Ok(Tracklist(files, performer, title)))
    /\ UNCHANGED <<sheet, performer, title, files, file, cur, taken, blocks,
                   timeVars, lexVars, enumVars, cueVars>>

\* ---- TrackFile::consume, the track loop (lines 100-129) ----

TrackFile(f) == [tracks |-> f.tracks, name |-> f.name, format |-> f.format]

\* Ok(TrackFile { .. }) back in parse: files.push(file)
FileReturn ==
    /\ files' = Append(files, TrackFile(file))
    /\ file' = None
    /\ pc' = "files"

\* the list is empty
FileClose ==
    /\ pc = "file" /\ Len(commands) = 0
    /\ FileReturn
    /\ UNCHANGED <<sheet, commands, performer, title, cur, taken, blocks, raised,
                   result, timeVars, lexVars, enumVars, cueVars>>

\* Track::consume removes a Track command and enters its loop
TrackOpen ==
    /\ pc = "file" /\ HeadIs({"Track"})
    /\ taken = <<>>
    /\ RemoveTaken
    /\ cur' = [number |-> commands[1].number, track_type |-> commands[1].track_type,
               title |-> None, performer |-> None, index |-> <<>>]
    /\ pc' = "track"
    /\ UNCHANGED <<sheet, performer, title, files, file, blocks, raised, result,
                   timeVars, lexVars, enumVars, cueVars>>

\* Track::consume removes another command and returns Err; TrackFile::consume
\* leaves its loop on it and returns Ok
TrackReject ==
    /\ pc = "file" /\ Len(commands) > 0 /\ ~HeadIs({"Track"})
    /\ commands' = Tail(commands)
    /\ raised' = Append(raised, "Track::consume called but no Track command found.")
    /\ FileReturn
    /\ UNCHANGED <<sheet, performer, title, cur, taken, blocks, result, timeVars, lexVars, enumVars, cueVars>>

\* ---- Track::consume, the command loop (lines 171-204) ----

TrackPerformer ==
    /\ pc = "track" /\ HeadIs({"Performer"})
    /\ cur' = [cur EXCEPT !.performer = Some(commands[1].s)]
    /\ RemoveTaken
    /\ UNCHANGED <<sheet, pc, performer, title, files, file, blocks, raised,
                   result, timeVars, lexVars, enumVars, cueVars>>

TrackTitle ==
    /\ pc = "track" /\ HeadIs({"Title"})
    /\ cur' = [cur EXCEPT !.title = Some(commands[1].s)]
    /\ RemoveTaken
    /\ UNCHANGED <<sheet, pc, performer, title, files, file, blocks, raised,
                   result, timeVars, lexVars, enumVars, cueVars>>

\* a plausible slip: the operands of the subtraction exchanged
pregap_index_swapped(time, first_index) ==
    <<0, from_frames(total_frames(time) - total_frames(first_index))>>

\* lines 194-195: the index entry pushed for PREGAP `time` before an index
\* at `first_index`
pregap_index(time, first_index) ==
    <<0, from_frames(total_frames(first_index) - total_frames(time))>>

\* Pregap followed by an Index
TrackPregap ==
    /\ pc = "track" /\ HeadIs({"Pregap"})
    /\ Len(commands) >= 2 /\ commands[2].kind = "Index"
    /\ cur' = [cur EXCEPT !.index =
                  Append(@, pregap_index(commands[1].time, commands[2].time))]
    /\ RemoveTaken
    /\ UNCHANGED <<sheet, pc, performer, title, files, file, blocks, raised,
                   result, timeVars, lexVars, enumVars, cueVars>>

\* Pregap followed by nothing or by another command: Track::consume returns
\* Err, TrackFile::consume leaves its loop on it and returns Ok
TrackPregapErr ==
    /\ pc = "track" /\ HeadIs({"Pregap"})
    /\ ~(Len(commands) >= 2 /\ commands[2].kind = "Index")
    /\ raised' = Append(raised,
                    IF Len(commands) < 2
                    THEN "Pregap is the last command in the track!"
                    ELSE "Pregap is not followed by an index!")
    /\ cur' = None
    /\ taken' = <<>>
    /\ FileReturn
    /\ UNCHANGED <<sheet, commands, performer, title, blocks, result, timeVars, lexVars, enumVars, cueVars>>

TrackIndex ==
    /\ pc = "track" /\ HeadIs({"Index"})
    /\ cur' = [cur EXCEPT !.index = Append(@, <<commands[1].number, commands[1].time>>)]
    /\ RemoveTaken
    /\ UNCHANGED <<sheet, pc, performer, title, files, file, blocks, raised,
                   result, timeVars, lexVars, enumVars, cueVars>>

\* Ok(Track { .. })
TrackOf(c) ==
    [title |-> c.title, track_type |-> c.track_type, duration |-> None,
     index |-> c.index, number |-> c.number, performer |-> c.performer]

\* a plausible slip: the start of the next track taken from the first index
\* entry of the track instead of the last
push_track_first(f, track) ==
    IF Len(track.index) > 0
    THEN LET time == track.index[1]
             stop == track.index[1][2]
             track_n == Len(f.tracks)
             tracks == IF f.last_time # None /\ track_n >= 1
                       THEN [f.tracks EXCEPT ![track_n].duration =
                                Some(sub(stop, f.last_time[1]))]
                       ELSE f.tracks
         IN  [f EXCEPT !.tracks = Append(tracks, track), !.last_time = Some(time[2])]
    ELSE [f EXCEPT !.tracks = Append(f.tracks, track), !.last_time = None]

\* a plausible slip: the duration written onto the track being pushed
push_track_onto_new(f, track) ==
    IF Len(track.index) > 0
    THEN LET time == track.index[Len(track.index)]
             stop == track.index[1][2]
             pushed == IF f.last_time # None
                       THEN [track EXCEPT !.duration = Some(sub(stop, f.last_time[1]))]
                       ELSE track
         IN  [f EXCEPT !.tracks = Append(f.tracks, pushed), !.last_time = Some(time[2])]
    ELSE [f EXCEPT !.tracks = Append(f.tracks, track), !.last_time = None]

\* a plausible slip: last_time is not reset by a track without index
push_track_keep_last_time(f, track) ==
    IF Len(track.index) > 0
    THEN LET time == track.index[Len(track.index)]
             stop == track.index[1][2]
             track_n == Len(f.tracks)
             tracks == IF f.last_time # None /\ track_n >= 1
                       THEN [f.tracks EXCEPT ![track_n].duration =
                                Some(sub(stop, f.last_time[1]))]
                       ELSE f.tracks
         IN  [f EXCEPT !.tracks = Append(tracks, track), !.last_time = Some(time[2])]
    ELSE [f EXCEPT !.tracks = Append(f.tracks, track)]

\* lines 102-120: the body of TrackFile::consume's loop for a consumed track.
\* tracks.get_mut(track_n - 1) finds nothing to write when track_n = 0.
push_track(f, track) ==
    IF Len(track.index) > 0
    THEN LET time == track.index[Len(track.index)]
             stop == track.index[1][2]
             track_n == Len(f.tracks)
             tracks == IF f.last_time # None /\ track_n >= 1
                       THEN [f.tracks EXCEPT ![track_n].duration =
                                Some(sub(stop, f.last_time[1]))]
                       ELSE f.tracks
         IN  [f EXCEPT !.tracks = Append(tracks, track), !.last_time = Some(time[2])]
    ELSE [f EXCEPT !.tracks = Append(f.tracks, track), !.last_time = None]

\* the list is empty, or `_ => break`: Track::consume returns Ok(track) and
\* TrackFile::consume runs the body of its loop on it
TrackReturn ==
    /\ pc = "track" /\ ~HeadIs({"Performer", "Title", "Pregap", "Index"})
    /\ file' = push_track(file, TrackOf(cur))
    /\ blocks' = [blocks EXCEPT ![Len(blocks)] = Append(@, taken)]
    /\ cur' = None
    /\ taken' = <<>>
    /\ pc' = "file"
    /\ UNCHANGED <<sheet, commands, performer, title, files, raised, result,
                   timeVars, lexVars, enumVars, cueVars>>

Next ==
    \/ HeaderPerformer
    \/ HeaderTitle
    \/ HeaderRem
    \/ HeaderBreak
    \/ ParseReturn
    \/ FileOpen
    \/ FileReject
    \/ FileClose
    \/ TrackOpen
    \/ TrackReject
    \/ TrackPerformer
    \/ TrackTitle
    \/ TrackPregap
    \/ TrackPregapErr
    \/ TrackIndex
    \/ TrackReturn

Spec == Init /\ [][Next]_vars

-----------------------------------------------------------------------------
(* Token, Reader and tokenize (src/parser/tokenization.rs)                 *)

NumberToken(n) == [kind |-> "Number", num |-> n]
StringToken(s) == [kind |-> "String", str |-> s]
TimeToken(t)   == [kind |-> "Time", time |-> t]

\* the double quote character
QUOTE == "QUOTE"

\* c.is_whitespace() || c == '\u{feff}'
is_whitespace(c) == c \in White_Space \/ c = BOM

available(cs, pos) == Len(cs) > pos

peek(cs, pos, n) ==
    IF pos + n <= Len(cs) THEN Ok(SubSeq(cs, pos + 1, pos + n))
    ELSE Err("Tried to read out of bounds of reader.")

\* Option<Time>; the position moves by 8 when it is Some. The 8 characters
\* peeked have 8 bytes only when each has one, so from_str cannot panic here.
try_take_time(cs, pos) ==
    LET s == peek(cs, pos, 8)
    IN  IF s.ok /\ from_str(s.val).ok THEN Some(from_str(s.val).val) ELSE None

\* a plausible slip: the character after the two digits is not looked at
try_take_number_no_boundary(cs, pos) ==
    LET s == peek(cs, pos, 2)
    IN  IF s.ok /\ \A i \in 1..2 : IsDigit(s.val[i])
        THEN Some(DigitsVal(s.val))
        ELSE None

\* Option<u32>; the position moves by 3 when it is Some
try_take_number(cs, pos) ==
    LET s  == peek(cs, pos, 2)
        s3 == peek(cs, pos, 3)
    IN  IF ~s.ok THEN None
        ELSE IF \A i \in 1..2 : IsDigit(s.val[i])
             THEN IF s3.ok /\ ~is_whitespace(s3.val[3]) THEN None
                  ELSE Some(DigitsVal(s.val))
             ELSE None

\* a plausible slip: whitespace ends a quoted string as it ends a bare one
RECURSIVE take_string_loop_ws_ends(_, _, _, _)
take_string_loop_ws_ends(cs, pos, is_quoted, acc) ==
    IF ~peek(cs, pos, 1).ok
    THEN [res |-> IF is_quoted THEN Err("Opened string not closed until EOF.")
                  ELSE Ok(acc),
          position |-> pos]
    ELSE LET next == cs[pos + 1]
         IN  IF next = QUOTE
             THEN [res |-> IF is_quoted THEN Ok(acc)
                           ELSE Err("The quote char is not allowed in strings."),
                   position |-> pos + 1]
             ELSE IF is_whitespace(next)
             THEN [res |-> Ok(acc), position |-> pos + 1]
             ELSE take_string_loop_ws_ends(cs, pos + 1, is_quoted, Append(acc, next))

\* the `while let Ok(next) = self.take(1)` loop of take_string, from `pos`
\* with `acc` read so far: the Result and the position it leaves
RECURSIVE take_string_loop(_, _, _, _)
take_string_loop(cs, pos, is_quoted, acc) ==
    IF ~peek(cs, pos, 1).ok
    THEN [res |-> IF is_quoted THEN Err("Opened string not closed until EOF.")
                  ELSE Ok(acc),
          position |-> pos]
    ELSE LET next == cs[pos + 1]
         IN  IF next = QUOTE
             THEN [res |-> IF is_quoted THEN Ok(acc)
                           ELSE Err("The quote char is not allowed in strings."),
                   position |-> pos + 1]
             ELSE IF ~is_quoted /\ is_whitespace(next)
             THEN [res |-> Ok(acc), position |-> pos + 1]
             ELSE take_string_loop(cs, pos + 1, is_quoted, Append(acc, next))

\* Result<String, Error> and the position take_string leaves
take_string(cs, pos) ==
    IF ~peek(cs, pos, 1).ok
    THEN [res |-> peek(cs, pos, 1), position |-> pos]
    ELSE LET first == cs[pos + 1]
             is_quoted == first = QUOTE
         IN  take_string_loop(cs, pos + 1, is_quoted,
                              IF is_quoted THEN <<>> ELSE <<first>>)

\* the position try_skip_whitespace leaves
RECURSIVE try_skip_whitespace(_, _)
try_skip_whitespace(cs, pos) ==
    IF peek(cs, pos, 1).ok /\ is_whitespace(cs[pos + 1])
    THEN try_skip_whitespace(cs, pos + 1)
    ELSE pos

\* the characters of the short sources
LexChars == {"1", "A", " ", "\f", QUOTE, ":"}

\* two-character fields and separators of the timecode-like sources
FieldSamples ==
    {<<"0", "0">>, <<"5", "9">>, <<"6", "0">>, <<"7", "4">>, <<"7", "5">>,
     <<"9", "9">>, <<"-", "1">>, <<"+", "1">>, <<"A", "1">>}
SepSamples == {":", " "}
Prefixes == {<<>>, <<" ">>, <<BOM>>, <<NBSP>>}
Suffixes == {<<>>, <<"x">>, <<" ", "1", "2">>}

\* the sources of tests::basic_types, tests::test_strings and
\* tests::string_starting_with_num
BasicTypesSource ==
    <<"A", "B", "C", " ", "1", "2", " ",
      "1", "0", ":", "1", "0", ":", "3", "0", " ", "A", "b", "c">>
TestStringsSource ==
    <<"A", "B", "C", " ", QUOTE, "x", "y", "z", " ", "x", "y", "z", " ",
      "1", "2", " ", "1", "0", ":", "1", "0", ":", "3", "0", QUOTE, " ", QUOTE, " ", "a", "b", "c", " ", QUOTE>>
StartingWithNumSource == <<"8", "6", "0", "B", "6", "4", "0", "B">>

\* every text of at most MaxSrc characters, the sources of the tests, and the
\* 8-character runs shaped like a timecode, alone or with text before and after
Sources ==
    UNION {[1..k -> LexChars] : k \in 0..MaxSrc}
    \cup
    {BasicTypesSource, TestStringsSource, StartingWithNumSource}
    \cup
    {p \o a \o <<x>> \o b \o <<y>> \o c \o q :
        p \in Prefixes, a \in FieldSamples, x \in SepSamples, b \in FieldSamples,
        y \in SepSamples, c \in FieldSamples, q \in Suffixes}

InitLex ==
    /\ chars \in Sources
    /\ position = 0 /\ tokens = <<>> /\ spans = <<>>
    /\ lex_pc = "start" /\ lex_result = None
    /\ TimeIdle
    /\ AsmIdle
    /\ EnumIdle
    /\ CueIdle

\* the text a recognizer read, from where it started to where it stopped
\* (a number at the end of the input moves the position one past the end)
Span(from, to) ==
    [from |-> from,
     text |-> SubSeq(chars, from + 1, IF to <= Len(chars) THEN to ELSE Len(chars))]

\* line 159: the whitespace before the first token
SkipLeading ==
    /\ lex_pc = "start"
    /\ position' = try_skip_whitespace(chars, position)
    /\ lex_pc' = "loop"
    /\ UNCHANGED <<chars, tokens, spans, lex_result, timeVars, asmVars, enumVars, cueVars>>

\* lines 161-162 and 168
LexTime ==
    /\ lex_pc = "loop" /\ available(chars, position)
    /\ try_take_time(chars, position) # None
    /\ tokens' = Append(tokens, TimeToken(try_take_time(chars, position)[1]))
    /\ spans' = Append(spans, Span(position, position + 8))
    /\ position' = try_skip_whitespace(chars, position + 8)
    /\ UNCHANGED <<chars, lex_pc, lex_result, timeVars, asmVars, enumVars, cueVars>>

\* lines 163-164 and 168
LexNumber ==
    /\ lex_pc = "loop" /\ available(chars, position)
    /\ try_take_time(chars, position) = None
    /\ try_take_number(chars, position) # None
    /\ tokens' = Append(tokens, NumberToken(try_take_number(chars, position)[1]))
    /\ spans' = Append(spans, Span(position, position + 3))
    /\ position' = try_skip_whitespace(chars, position + 3)
    /\ UNCHANGED <<chars, lex_pc, lex_result, timeVars, asmVars, enumVars, cueVars>>

\* lines 165-168, take_string returned Ok
LexString ==
    /\ lex_pc = "loop" /\ available(chars, position)
    /\ try_take_time(chars, position) = None
    /\ try_take_number(chars, position) = None
    /\ LET r == take_string(chars, position)
       IN  /\ r.res.ok
           /\ tokens' = Append(tokens, StringToken(r.res.val))
           /\ spans' = Append(spans, Span(position, r.position))
           /\ position' = try_skip_whitespace(chars, r.position)
    /\ UNCHANGED <<chars, lex_pc, lex_result, timeVars, asmVars, enumVars, cueVars>>

\* line 166, take_string returned Err and `?` returns it
LexStringErr ==
    /\ lex_pc = "loop" /\ available(chars, position)
    /\ try_take_time(chars, position) = None
    /\ try_take_number(chars, position) = None
    /\ LET r == take_string(chars, position)
       IN  /\ ~r.res.ok
           /\ position' = r.position
           /\ lex_result' = Some(r.res)
    /\ lex_pc' = "done"
    /\ UNCHANGED <<chars, tokens, spans, timeVars, asmVars, enumVars, cueVars>>

\* line 171: Ok(tokens)
LexReturn ==
    /\ lex_pc = "loop" /\ ~available(chars, position)
    /\ lex_result' = Some(Ok(tokens))
    /\ lex_pc' = "done"
    /\ UNCHANGED <<chars, position, tokens, spans, timeVars, asmVars, enumVars, cueVars>>

NextLex ==
    \/ SkipLeading
    \/ LexTime
    \/ LexNumber
    \/ LexString
    \/ LexStringErr
    \/ LexReturn

SpecLex == InitLex /\ [][NextLex]_vars

-----------------------------------------------------------------------------
(* The enums of src/parser/mod.rs and their FromStr impls.                 *)

LOWER == <<"a", "b", "c", "d", "e", "f", "g", "h", "i", "j", "k", "l", "m",
           "n", "o", "p", "q", "r", "s", "t", "u", "v", "w", "x", "y", "z">>
UPPER == <<"A", "B", "C", "D", "E", "F", "G", "H", "I", "J", "K", "L", "M",
           "N", "O", "P", "Q", "R", "S", "T", "U", "V", "W", "X", "Y", "Z">>

\* char::to_uppercase: the upper case of one character, which may be more
\* than one character; a character with no upper case is kept
char_to_uppercase(c) ==
    IF \E k \in 1..26 : LOWER[k] = c
    THEN <<UPPER[CHOOSE k \in 1..26 : LOWER[k] = c]>>
    ELSE CASE c = DOTLESS_I -> <<"I">>
           [] c = LONG_S    -> <<"S">>
           [] c = SHARP_S   -> <<"S", "S">>
           [] c = E_ACUTE   -> <<CAPITAL_E_ACUTE>>
           [] c = "U+FB00"  -> <<"F", "F">>
           [] c = "U+FB01"  -> <<"F", "I">>
           [] c = "U+FB02"  -> <<"F", "L">>
           [] c = "U+FB03"  -> <<"F", "F", "I">>
           [] c = "U+FB04"  -> <<"F", "F", "L">>
           [] c = "U+FB05"  -> <<"S", "T">>
           [] c = "U+FB06"  -> <<"S", "T">>
           [] OTHER         -> <<c>>

\* str::to_uppercase: the Unicode upper case, character by character
RECURSIVE to_uppercase(_)
to_uppercase(s) ==
    IF Len(s) = 0 THEN <<>>
    ELSE char_to_uppercase(s[1]) \o to_uppercase(Tail(s))

Wave     == [kind |-> "Wave"]
Mp3      == [kind |-> "Mp3"]
Aiff     == [kind |-> "Aiff"]
Binary   == [kind |-> "Binary"]
Motorola == [kind |-> "Motorola"]

\* <FileFormat as FromStr>::from_str
FileFormat_from_str(s) ==
    LET u == to_uppercase(s)
    IN
        CASE u = <<"W", "A", "V", "E">> -> Ok(Wave)
          [] u = <<"M", "P", "3">> -> Ok(Mp3)
          [] u = <<"A", "I", "F", "F">> -> Ok(Aiff)
          [] u = <<"B", "I", "N", "A", "R", "Y">> -> Ok(Binary)
          [] u = <<"M", "O", "T", "O", "R", "O", "L", "A">> -> Ok(Motorola)
          [] OTHER -> Err("Invalid FileFormat")

Dcp         == [kind |-> "Dcp"]
FourChannel == [kind |-> "FourChannel"]
Pre         == [kind |-> "Pre"]
Scms        == [kind |-> "Scms"]

\* <TrackFlag as FromStr>::from_str
TrackFlag_from_str(s) ==
    LET u == to_uppercase(s)
    IN
        CASE u = <<"D", "C", "P">> -> Ok(Dcp)
          [] u = <<"4", "C", "H">> -> Ok(FourChannel)
          [] u = <<"P", "R", "E">> -> Ok(Pre)
          [] u = <<"S", "C", "M", "S">> -> Ok(Scms)
          [] OTHER -> Err("invalid TrackFlag")

Audio      == [kind |-> "Audio"]
Cdg        == [kind |-> "Cdg"]
Mode(m, n) == [kind |-> "Mode", mode |-> m, size |-> n]
Cdi(n)     == [kind |-> "Cdi", size |-> n]

\* <TrackType as FromStr>::from_str
TrackType_from_str(s) ==
    LET u == to_uppercase(s)
    IN
        CASE u = <<"A", "U", "D", "I", "O">> -> Ok(Audio)
          [] u = <<"C", "D", "G">> -> Ok(Cdg)
          [] u = <<"M", "O", "D", "E", "1", "/", "2", "0", "4", "8">> -> Ok(Mode(1, 2048))
          [] u = <<"M", "O", "D", "E", "1", "/", "2", "3", "5", "2">> -> Ok(Mode(1, 2352))
          [] u = <<"M", "O", "D", "E", "2", "/", "2", "0", "4", "8">> -> Ok(Mode(1, 2048))
          [] u = <<"M", "O", "D", "E", "2", "/", "2", "3", "2", "4">> -> Ok(Mode(1, 2324))
          [] u = <<"M", "O", "D", "E", "2", "/", "2", "3", "3", "6">> -> Ok(Mode(1, 2336))
          [] u = <<"M", "O", "D", "E", "2", "/", "2", "3", "5", "2">> -> Ok(Mode(1, 2352))
          [] u = <<"C", "D", "I", "/", "2", "3", "3", "6">> -> Ok(Cdi(2336))
          [] u = <<"C", "D", "I", "/", "2", "3", "5", "2">> -> Ok(Cdi(2352))
          [] OTHER -> Err("Unknown track type")

-----------------------------------------------------------------------------
(* The three from_str functions on sample strings: the initial state       *)
(* chooses the argument, one action per function applies it.               *)

TrackTypeKeywords ==
    {<<"A", "U", "D", "I", "O">>,
     <<"C", "D", "G">>,
     <<"M", "O", "D", "E", "1", "/", "2", "0", "4", "8">>,
     <<"M", "O", "D", "E", "1", "/", "2", "3", "5", "2">>,
     <<"M", "O", "D", "E", "2", "/", "2", "0", "4", "8">>,
     <<"M", "O", "D", "E", "2", "/", "2", "3", "2", "4">>,
     <<"M", "O", "D", "E", "2", "/", "2", "3", "3", "6">>,
     <<"M", "O", "D", "E", "2", "/", "2", "3", "5", "2">>,
     <<"C", "D", "I", "/", "2", "3", "3", "6">>,
     <<"C", "D", "I", "/", "2", "3", "5", "2">>}
TrackFlagKeywords ==
    {<<"D", "C", "P">>, <<"4", "C", "H">>, <<"P", "R", "E">>, <<"S", "C", "M", "S">>}
FileFormatKeywords ==
    {<<"W", "A", "V", "E">>,
     <<"M", "P", "3">>,
     <<"A", "I", "F", "F">>,
     <<"B", "I", "N", "A", "R", "Y">>,
     <<"M", "O", "T", "O", "R", "O", "L", "A">>}

\* the lower-case spelling of a keyword
Lowered(s) ==
    [i \in 1..Len(s) |->
        IF \E k \in 1..26 : UPPER[k] = s[i]
        THEN LOWER[CHOOSE k \in 1..26 : UPPER[k] = s[i]]
        ELSE s[i]]

\* a keyword with its first letter kept and the rest in lower case
Capitalised(s) == <<s[1]>> \o Lowered(Tail(s))

\* strings that are no keyword of any of the three enums
OtherStrings ==
    {<<>>, <<"M", "O", "D", "E", "3", "/", "2", "0", "4", "8">>, <<"M", "O", "D", "E", "1", "/", "2", "3", "3", "6">>, <<"C", "D", "I", "/", "2", "0", "4", "8">>,
     <<"A", "U", "D", "I", "O", " ">>, <<"M", "O", "D", "E", "2">>, <<"F", "L", "A", "C">>, <<"t", "i", "t", "l", "e">>,
     <<SHARP_S>>, <<E_ACUTE>>, <<"p", "r", E_ACUTE>>, <<"w", "a", "v", CAPITAL_E_ACUTE>>}

\* keywords spelled with a letter outside ASCII whose upper case is ASCII
UnicodeSpellings ==
    {<<"a", "u", "d", DOTLESS_I, "o">>, <<"A", "U", "D", DOTLESS_I, "O">>,
     <<"c", "d", DOTLESS_I, "/", "2", "3", "3", "6">>,
     <<LONG_S, "c", "m", "s">>, <<"S", "C", "M", LONG_S>>,
     <<"b", DOTLESS_I, "n", "a", "r", "y">>, <<"a", DOTLESS_I, "f", "f">>,
     <<"a", "i", "U+FB00">>, <<"a", "U+FB03">>, <<"A", "U+FB01", "f">>,
     <<"m", "o", "t", "o", "r", "o", "U+FB02">>}

EnumStrings ==
    LET K == TrackTypeKeywords \cup TrackFlagKeywords \cup FileFormatKeywords
    IN  K \cup {Lowered(k) : k \in K} \cup {Capitalised(k) : k \in K}
          \cup OtherStrings \cup UnicodeSpellings

InitEnum ==
    /\ e_in \in EnumStrings
    /\ e_op = "init" /\ e_out = None
    /\ TimeIdle
    /\ AsmIdle
    /\ LexIdle
    /\ CueIdle

\* s.parse::<TrackType>()
ApplyTrackType ==
    /\ e_op = "init"
    /\ e_op' = "track_type"
    /\ e_out' = TrackType_from_str(e_in)
    /\ UNCHANGED <<e_in, timeVars, asmVars, lexVars, cueVars>>

\* TrackFlag::from_str(s)
ApplyTrackFlag ==
    /\ e_op = "init"
    /\ e_op' = "track_flag"
    /\ e_out' = TrackFlag_from_str(e_in)
    /\ UNCHANGED <<e_in, timeVars, asmVars, lexVars, cueVars>>

\* s.parse::<FileFormat>()
ApplyFileFormat ==
    /\ e_op = "init"
    /\ e_op' = "file_format"
    /\ e_out' = FileFormat_from_str(e_in)
    /\ UNCHANGED <<e_in, timeVars, asmVars, lexVars, cueVars>>

NextEnum ==
    \/ ApplyTrackType
    \/ ApplyTrackFlag
    \/ ApplyFileFormat

SpecEnum == InitEnum /\ [][NextEnum]_vars

-----------------------------------------------------------------------------
(* Command::consume and parse_cue (src/parser/command.rs,                  *)
(* src/parser/mod.rs). A consume function returns its Result together with *)
(* the token vector as it leaves it.                                       *)

\* a plausible slip: the token is read but stays in the vector
consume_token_peeks(ts) ==
    IF Len(ts) = 0
    THEN [res |-> Err("No tokens left!"), tokens |-> ts]
    ELSE [res |-> Ok(ts[1]), tokens |-> ts]

consume_token(ts) ==
    IF Len(ts) = 0
    THEN [res |-> Err("No tokens left!"), tokens |-> ts]
    ELSE [res |-> Ok(ts[1]), tokens |-> Tail(ts)]

consume_time(ts) ==
    LET r == consume_token(ts)
    IN  IF ~r.res.ok THEN r
        ELSE IF r.res.val.kind = "Time"
        THEN [res |-> Ok(r.res.val.time), tokens |-> r.tokens]
        ELSE [res |-> Err("Expected duration"), tokens |-> r.tokens]

consume_number(ts) ==
    LET r == consume_token(ts)
    IN  IF ~r.res.ok THEN r
        ELSE IF r.res.val.kind = "Number"
        THEN [res |-> Ok(r.res.val.num), tokens |-> r.tokens]
        ELSE [res |-> Err("Expeceted number"), tokens |-> r.tokens]

\* a plausible slip: a Number token is taken as the string of its digits
consume_string_or_number(ts) ==
    LET r == consume_token(ts)
    IN  IF ~r.res.ok THEN r
        ELSE IF r.res.val.kind = "String"
        THEN [res |-> Ok(r.res.val.str), tokens |-> r.tokens]
        ELSE IF r.res.val.kind = "Number"
        THEN [res |-> Ok(Pad02(r.res.val.num)), tokens |-> r.tokens]
        ELSE [res |-> Err("Expeceted string"), tokens |-> r.tokens]

consume_string(ts) ==
    LET r == consume_token(ts)
    IN  IF ~r.res.ok THEN r
        ELSE IF r.res.val.kind = "String"
        THEN [res |-> Ok(r.res.val.str), tokens |-> r.tokens]
        ELSE [res |-> Err("Expeceted string"), tokens |-> r.tokens]

\* format!("{:013}", n)
Pad013(n) ==
    LET d == Decimal(n)
    IN  [i \in 1..(13 - Len(d)) |-> "0"] \o d

\* a plausible slip: the token that is no flag is not put back
RECURSIVE consume_flags_no_put_back(_, _)
consume_flags_no_put_back(ts, flags) ==
    IF Len(ts) = 0
    THEN [flags |-> flags, tokens |-> ts]
    ELSE LET token == ts[1]
             removed == Tail(ts)
             flag == TrackFlag_from_str(token.str)
         IN  IF token.kind = "String" /\ flag.ok
             THEN consume_flags_no_put_back(removed, Append(flags, flag.val))
             ELSE [flags |-> flags, tokens |-> removed]

\* the `while tokens.len() > 0` loop of the FLAGS arm
RECURSIVE consume_flags(_, _)
consume_flags(ts, flags) ==
    IF Len(ts) = 0
    THEN [flags |-> flags, tokens |-> ts]
    ELSE LET token == ts[1]
             removed == Tail(ts)
             flag == TrackFlag_from_str(token.str)
         IN  IF token.kind = "String" /\ flag.ok
             THEN consume_flags(removed, Append(flags, flag.val))
             ELSE [flags |-> flags, tokens |-> <<token>> \o removed]

\* Command::consume
Command_consume(ts) ==
    LET k == consume_string(ts)
    IN  IF ~k.res.ok THEN k
        ELSE
        LET kw == to_uppercase(k.res.val)
            rest == k.tokens
        IN
             CASE kw = <<"C", "A", "T", "A", "L", "O", "G">> ->
                  LET a == consume_number(rest)
                  IN  IF ~a.res.ok THEN a
                      ELSE [res |-> Ok(Catalog(Pad013(a.res.val))), tokens |-> a.tokens]
               [] kw = <<"C", "D", "T", "E", "X", "T", "F", "I", "L", "E">> ->
                  LET a == consume_string(rest)
                  IN  IF ~a.res.ok THEN a
                      ELSE [res |-> Ok(Cdtextfile(a.res.val)), tokens |-> a.tokens]
               [] kw = <<"F", "I", "L", "E">> ->
                  LET a == consume_string(rest)
                      b == consume_string(a.tokens)
                      parsed == FileFormat_from_str(b.res.val)
                  IN  IF ~a.res.ok THEN a
                      ELSE IF ~b.res.ok THEN b
                      ELSE IF ~parsed.ok THEN [res |-> parsed, tokens |-> b.tokens]
                      ELSE [res |-> Ok(File(a.res.val, parsed.val)), tokens |-> b.tokens]
               [] kw = <<"F", "L", "A", "G", "S">> ->
                  LET r == consume_flags(rest, <<>>)
                  IN  IF Len(r.flags) = 0
                      THEN [res |-> Err("Encountered FLAGS command without succeeding TrackFlag"),
                            tokens |-> r.tokens]
                      ELSE [res |-> Ok(Flags(r.flags)), tokens |-> r.tokens]
               [] kw = <<"I", "N", "D", "E", "X">> ->
                  LET a == consume_number(rest)
                      b == consume_time(a.tokens)
                  IN  IF ~a.res.ok THEN a
                      ELSE IF ~b.res.ok THEN b
                      ELSE [res |-> Ok(Index(a.res.val, b.res.val)), tokens |-> b.tokens]
               [] kw = <<"I", "S", "R", "C">> ->
                  LET a == consume_string(rest)
                  IN  IF ~a.res.ok THEN a
                      ELSE [res |-> Ok(Isrc(a.res.val)), tokens |-> a.tokens]
               [] kw = <<"P", "E", "R", "F", "O", "R", "M", "E", "R">> ->
                  LET a == consume_string(rest)
                  IN  IF ~a.res.ok THEN a
                      ELSE [res |-> Ok(Performer(a.res.val)), tokens |-> a.tokens]
               [] kw = <<"P", "O", "S", "T", "G", "A", "P">> ->
                  LET a == consume_time(rest)
                  IN  IF ~a.res.ok THEN a
                      ELSE [res |-> Ok(Postgap(a.res.val)), tokens |-> a.tokens]
               [] kw = <<"P", "R", "E", "G", "A", "P">> ->
                  LET a == consume_time(rest)
                  IN  IF ~a.res.ok THEN a
                      ELSE [res |-> Ok(Pregap(a.res.val)), tokens |-> a.tokens]
               [] kw = <<"R", "E", "M">> ->
                  LET a == consume_string(rest)
                      b == consume_token(a.tokens)
                  IN  IF ~a.res.ok THEN a
                      ELSE IF ~b.res.ok THEN b
                      ELSE [res |-> Ok(Rem(a.res.val, b.res.val)), tokens |-> b.tokens]
               [] kw = <<"S", "O", "N", "G", "W", "R", "I", "T", "E", "R">> ->
                  LET a == consume_string(rest)
                  IN  IF ~a.res.ok THEN a
                      ELSE [res |-> Ok(Songwriter(a.res.val)), tokens |-> a.tokens]
               [] kw = <<"T", "I", "T", "L", "E">> ->
                  LET a == consume_string(rest)
                  IN  IF ~a.res.ok THEN a
                      ELSE [res |-> Ok(Title(a.res.val)), tokens |-> a.tokens]
               [] kw = <<"T", "R", "A", "C", "K">> ->
                  LET a == consume_number(rest)
                      b == consume_string(a.tokens)
                      parsed == TrackType_from_str(b.res.val)
                  IN  IF ~a.res.ok THEN a
                      ELSE IF ~b.res.ok THEN b
                      ELSE IF ~parsed.ok THEN [res |-> parsed, tokens |-> b.tokens]
                      ELSE [res |-> Ok(Track(a.res.val, parsed.val)), tokens |-> b.tokens]
               [] OTHER -> [res |-> Err("Invalid command"), tokens |-> rest]

\* the tokens the token vectors of the model are made of
TokenSamples ==
    { StringToken(<<"T", "I", "T", "L", "E">>), StringToken(<<"F", "L", "A", "G", "S">>),
      StringToken(<<"D", "C", "P">>), StringToken(<<"p", "r", "e">>),
      StringToken(<<"I", "N", "D", "E", "X">>), StringToken(<<"R", "E", "M">>),
      NumberToken(1), TimeToken(new(0, 1, 10)) }

\* one command each, well formed or not
Phrases ==
    { <<StringToken(<<"C", "A", "T", "A", "L", "O", "G">>), NumberToken(12)>>,
      <<StringToken(<<"C", "D", "T", "E", "X", "T", "F", "I", "L", "E">>), StringToken(<<"a">>)>>,
      <<StringToken(<<"F", "I", "L", "E">>), StringToken(<<"f">>), StringToken(<<"W", "A", "V", "E">>)>>,
      <<StringToken(<<"F", "i", "l", "e">>), StringToken(<<"f">>), StringToken(<<"m", "p", "3">>)>>,
      <<StringToken(<<"F", "I", "L", "E">>), StringToken(<<"f">>), StringToken(<<"F", "L", "A", "C">>)>>,
      <<StringToken(<<"F", "L", "A", "G", "S">>), StringToken(<<"D", "C", "P">>)>>,
      <<StringToken(<<"F", "L", "A", "G", "S">>), StringToken(<<"4", "c", "h">>), StringToken(<<"S", "C", "M", "S">>), StringToken(<<"P", "r", "e">>)>>,
      <<StringToken(<<"I", "N", "D", "E", "X">>), NumberToken(1), TimeToken(new(0, 1, 10))>>,
      <<StringToken(<<"I", "S", "R", "C">>), StringToken(<<"a">>)>>,
      <<StringToken(<<"P", "E", "R", "F", "O", "R", "M", "E", "R">>), StringToken(<<"a">>)>>,
      <<StringToken(<<"P", "O", "S", "T", "G", "A", "P">>), TimeToken(new(0, 1, 10))>>,
      <<StringToken(<<"P", "R", "E", "G", "A", "P">>), TimeToken(new(0, 1, 10))>>,
      <<StringToken(<<"R", "E", "M">>), StringToken(<<"D", "A", "T", "E">>), StringToken(<<"a">>)>>,
      <<StringToken(<<"R", "E", "M">>), StringToken(<<"D", "A", "T", "E">>), TimeToken(new(0, 1, 10))>>,
      <<StringToken(<<"r", "e", "m">>), StringToken(<<"D", "A", "T", "E">>), NumberToken(12)>>,
      <<StringToken(<<"S", "O", "N", "G", "W", "R", "I", "T", "E", "R">>), StringToken(<<"a">>)>>,
      <<StringToken(<<"T", "I", "T", "L", "E">>), StringToken(<<"a">>)>>,
      <<StringToken(<<"t", "i", "t", "l", "e">>), StringToken(<<"a">>)>>,
      <<StringToken(<<"T", "R", "A", "C", "K">>), NumberToken(1), StringToken(<<"A", "U", "D", "I", "O">>)>>,
      <<StringToken(<<"T", "R", "A", "C", "K">>), NumberToken(1), StringToken(<<"M", "O", "D", "E", "2", "/", "2", "3", "5", "2">>)>>,
      <<StringToken(<<"T", "R", "A", "C", "K">>), NumberToken(1), StringToken(<<"a">>)>>,
      <<StringToken(<<"B", "O", "G", "U", "S">>), StringToken(<<"a">>)>>,
      <<StringToken(<<"T", "R", "A", "C", "K">>), StringToken(<<"a">>), StringToken(<<"A", "U", "D", "I", "O">>)>>,
      <<StringToken(<<"t", DOTLESS_I, "t", "l", "e">>), StringToken(<<"a">>)>>,
      <<StringToken(<<LONG_S, "o", "n", "g", "w", "r", "i", "t", "e", "r">>), StringToken(<<"a">>)>>,
      <<StringToken(<<"U+FB01", "l", "e">>), StringToken(<<"f">>), StringToken(<<"b", DOTLESS_I, "n", "a", "r", "y">>)>>,
      <<StringToken(<<"T", "R", "A", "C", "K">>), NumberToken(1), StringToken(<<"a", "u", "d", DOTLESS_I, "o">>)>>,
      <<StringToken(<<"U+FB02", "a", "g", "s">>), StringToken(<<"d", "c", "p">>), StringToken(<<LONG_S, "c", "m", "s">>), StringToken(<<"p", "r", "e">>)>>,
      <<StringToken(<<"F", "L", "A", "G", "S">>), StringToken(<<"p", "r", E_ACUTE>>)>>,
      <<StringToken(<<"t", "i", "t", "l", E_ACUTE>>), StringToken(<<"a">>)>> }

\* every sequence of at most MaxToks sample tokens, and every phrase alone
\* or followed by another
TokenVectors ==
    UNION {[1..k -> TokenSamples] : k \in 0..MaxToks}
    \cup
    {a \o b : a \in Phrases, b \in Phrases \cup {<<>>}}

InitCue ==
    /\ cue_input \in TokenVectors
    /\ cue_tokens = cue_input
    /\ cue_commands = <<>>
    /\ consumed = <<>>
    /\ cue_pc = "loop"
    /\ cue_result = None
    /\ TimeIdle
    /\ AsmIdle
    /\ LexIdle
    /\ EnumIdle

\* the tokens of `before` that are no longer in `after`
Removed(before, after) == SubSeq(before, 1, Len(before) - Len(after))

\* one iteration of the loop of parse_cue: Command::consume returned Ok
CueCommand ==
    /\ cue_pc = "loop"
    /\ Len(cue_tokens) > 0
    /\ LET r == Command_consume(cue_tokens)
       IN  /\ r.res.ok
           /\ cue_commands' = Append(cue_commands, r.res.val)
           /\ cue_tokens' = r.tokens
           /\ consumed' = Append(consumed, Removed(cue_tokens, r.tokens))
    /\ UNCHANGED <<cue_input, cue_pc, cue_result, timeVars, asmVars, lexVars, enumVars>>

\* one iteration of the loop of parse_cue: Command::consume returned Err,
\* which `?` returns from parse_cue
CueError ==
    /\ cue_pc = "loop"
    /\ Len(cue_tokens) > 0
    /\ LET r == Command_consume(cue_tokens)
       IN  /\ ~r.res.ok
           /\ cue_result' = Some(r.res)
           /\ cue_tokens' = r.tokens
           /\ consumed' = Append(consumed, Removed(cue_tokens, r.tokens))
    /\ cue_pc' = "done"
    /\ UNCHANGED <<cue_input, cue_commands, timeVars, asmVars, lexVars, enumVars>>

\* the loop of parse_cue ends: Ok(commands)
CueReturn ==
    /\ cue_pc = "loop"
    /\ Len(cue_tokens) = 0
    /\ cue_result' = Some(Ok(cue_commands))
    /\ cue_pc' = "done"
    /\ UNCHANGED <<cue_input, cue_tokens, cue_commands, consumed, timeVars, asmVars, lexVars, enumVars>>

NextCue ==
    \/ CueCommand
    \/ CueError
    \/ CueReturn

SpecCue == InitCue /\ [][NextCue]_vars

-----------------------------------------------------------------------------
(* The three stages side by side: a behaviour runs tokenize on a source,   *)
(* parse_cue on a token vector, or Tracklist::parse on a command list.     *)

InitStages == InitLex \/ InitCue \/ Init

NextStages ==
    \/ NextLex
    \/ NextCue
    \/ Next

SpecStages == InitStages /\ [][NextStages]_vars

-----------------------------------------------------------------------------
(* Properties of the enum parsers (checked under SpecEnum).                *)

\* the table of track types as the documentation of TrackType gives it
TrackTypeTable(u) ==
    CASE u = <<"A", "U", "D", "I", "O">> -> Audio
      [] u = <<"C", "D", "G">> -> Cdg
      [] u = <<"M", "O", "D", "E", "1", "/", "2", "0", "4", "8">> -> Mode(1, 2048)
      [] u = <<"M", "O", "D", "E", "1", "/", "2", "3", "5", "2">> -> Mode(1, 2352)
      [] u = <<"M", "O", "D", "E", "2", "/", "2", "0", "4", "8">> -> Mode(2, 2048)
      [] u = <<"M", "O", "D", "E", "2", "/", "2", "3", "2", "4">> -> Mode(2, 2324)
      [] u = <<"M", "O", "D", "E", "2", "/", "2", "3", "3", "6">> -> Mode(2, 2336)
      [] u = <<"M", "O", "D", "E", "2", "/", "2", "3", "5", "2">> -> Mode(2, 2352)
      [] u = <<"C", "D", "I", "/", "2", "3", "3", "6">> -> Cdi(2336)
      [] u = <<"C", "D", "I", "/", "2", "3", "5", "2">> -> Cdi(2352)

\* C13: a track-type keyword, in any letter case, parses to the variant of
\* the table, with sector mode 2 for the MODE2 keywords; two different
\* keywords never parse to the same value; every other string is an error.
C13_TrackTypeTable ==
    e_op = "track_type" =>
        LET u == to_uppercase(e_in)
        IN  IF u \in TrackTypeKeywords
            THEN /\ e_out = Ok(TrackTypeTable(u))
                 /\ \A k \in TrackTypeKeywords \ {u} :
                        TrackType_from_str(k) # e_out
            ELSE ~e_out.ok

-----------------------------------------------------------------------------
(* Properties of the lexer (checked under SpecLex).                        *)

\* C10: every Time token comes from exactly 8 characters dd:dd:dd and
\* carries seconds in 0-59 and frames in 0-74; a run with a sign character or
\* with out-of-range seconds or frames is not lexed as a timecode.
C10_TimecodeTokensValid ==
    \A i \in 1..Len(tokens) :
        tokens[i].kind = "Time" =>
            /\ Len(spans[i].text) = 8
            /\ \A k \in {1, 2, 4, 5, 7, 8} : IsDigit(spans[i].text[k])
            /\ spans[i].text[3] = ":" /\ spans[i].text[6] = ":"
            /\ tokens[i].time.secs \in 0..59
            /\ tokens[i].time.frames \in 0..(FPS - 1)

\* a word: a maximal run of characters that are not whitespace
IsWordStart(i) ==
    /\ ~is_whitespace(chars[i])
    /\ i = 1 \/ is_whitespace(chars[i - 1])

\* the position of the last character of the word that starts at i
WordEnd(i) ==
    CHOOSE j \in i..Len(chars) :
        /\ \A k \in i..j : ~is_whitespace(chars[k])
        /\ j = Len(chars) \/ is_whitespace(chars[j + 1])

Word(i) == SubSeq(chars, i, WordEnd(i))

\* the word that starts at i lies outside every quoted string
OutsideQuotes(i) == Cardinality({k \in 1..(i - 1) : chars[k] = QUOTE}) % 2 = 0

HasQuote(w) == \E k \in 1..Len(w) : w[k] = QUOTE
AllDigits(w) == \A k \in 1..Len(w) : IsDigit(w[k])

\* the timecode recognizer, tried first, takes the 8 characters at i
TimecodeAt(i) ==
    i + 7 <= Len(chars) /\ from_str(SubSeq(chars, i, i + 7)).ok

\* the word that starts at i came out as one String token holding it all
LexedAsString(i) ==
    \E k \in 1..Len(tokens) :
        /\ spans[k].from = i - 1
        /\ tokens[k].kind = "String"
        /\ tokens[k].str = Word(i)

\* the starts of the words outside quotes that hold no quote themselves
BareWords ==
    {i \in 1..Len(chars) :
        IsWordStart(i) /\ OutsideQuotes(i) /\ ~HasQuote(Word(i))}

LexedOk == lex_pc = "done" /\ lex_result[1].ok

\* C11: a Number token comes only from two digits followed by whitespace or
\* the end of the input. Where the timecode recognizer, tried first, does not
\* match, a bare word of digits whose length is not 2, and a bare word of two
\* digits followed by another character, come out as one String token holding
\* the whole word. `ABC 12 10:10:30 Abc` gives String, Number, Time, String.
C11_NumberRule ==
    /\ \A k \in 1..Len(tokens) :
          tokens[k].kind = "Number" =>
              LET text == spans[k].text
              IN  /\ Len(text) >= 2
                  /\ IsDigit(text[1]) /\ IsDigit(text[2])
                  /\ Len(text) = 2 \/ is_whitespace(text[3])
                  /\ tokens[k].num = 10 * DigitVal(text[1]) + DigitVal(text[2])
    /\ LexedOk =>
          \A i \in BareWords :
              LET w == Word(i)
              IN  /\ (AllDigits(w) /\ Len(w) # 2) => LexedAsString(i)
                  /\ (Len(w) >= 3 /\ IsDigit(w[1]) /\ IsDigit(w[2]) /\ ~TimecodeAt(i))
                        => LexedAsString(i)
    /\ (LexedOk /\ chars = BasicTypesSource) =>
          tokens = <<StringToken(<<"A", "B", "C">>), NumberToken(12),
                     TimeToken(new(10, 10, 30)), StringToken(<<"A", "b", "c">>)>>

\* C11 witness: the source of tests::basic_types was lexed to its four tokens.
C11_Witness ==
    /\ LexedOk
    /\ chars = BasicTypesSource
    /\ Len(tokens) = 4
    /\ tokens[2] = NumberToken(12)

\* C12: a token that starts at a quote is one String token holding exactly
\* the characters up to the next quote; tokenize returns an error when a
\* quote is left open at the end of the input, and when a bare word that the
\* string recognizer reads holds a quote after its first character.
C12_StringRule ==
    /\ \A k \in 1..Len(tokens) :
          (Len(spans[k].text) > 0 /\ spans[k].text[1] = QUOTE) =>
              /\ tokens[k].kind = "String"
              /\ ~HasQuote(tokens[k].str)
              /\ spans[k].text = <<QUOTE>> \o tokens[k].str \o <<QUOTE>>
    /\ lex_pc = "done" =>
          /\ Cardinality({k \in 1..Len(chars) : chars[k] = QUOTE}) % 2 = 1
                => ~lex_result[1].ok
          /\ (\E i \in 1..Len(chars) :
                 /\ IsWordStart(i) /\ OutsideQuotes(i)
                 /\ chars[i] # QUOTE /\ ~TimecodeAt(i)
                 /\ HasQuote(Word(i)))
                => ~lex_result[1].ok
    /\ (lex_pc = "done" /\ chars = TestStringsSource) =>
          /\ lex_result[1].ok
          /\ Len(tokens) = 3

\* C12 witness: the source of tests::test_strings was lexed to three String
\* tokens, the quoted runs kept with their spaces, digits and timecode.
C12_Witness ==
    /\ LexedOk
    /\ chars = TestStringsSource
    /\ \A k \in 1..3 : tokens[k].kind = "String"
    /\ tokens[1].str = <<"A", "B", "C">>
    /\ tokens[2].str = SubSeq(chars, 6, 24)
    /\ tokens[3].str = <<" ", "a", "b", "c", " ">>

-----------------------------------------------------------------------------
(* Properties of the assembler (checked under Spec).                       *)

\* the Tracklist that Tracklist::parse returned
Returned == result[1].val

\* the track lists of the Tracklist returned
ReturnedTrackLists ==
    {Returned.files[i].tracks : i \in 1..Len(Returned.files)}

\* the track list of the i-th file opened so far (blocks[i] holds, track by
\* track, the commands that went into it)
TracksOfOpened(i) == IF i <= Len(files) THEN files[i].tracks ELSE file.tracks

\* the files opened so far and the tracks assembled in each
Assembled ==
    {<<i, j>> \in (1..Len(blocks)) \X (1..(MaxCmds + MaxBody)) :
        j <= Len(blocks[i])}

HeaderKinds == {"Performer", "Title", "Rem"}

\* the length of the leading run of Performer, Title and Rem commands
HeaderLen(s) ==
    CHOOSE n \in 0..Len(s) :
        /\ \A i \in 1..n : s[i].kind \in HeaderKinds
        /\ n = Len(s) \/ s[n + 1].kind \notin HeaderKinds

LastIndexTime(t) == t.index[Len(t.index)][2]
FirstIndexTime(t) == t.index[1][2]

\* C1: of two consecutive tracks of a file that both have index entries, the
\* first has the duration Some(first index time of the second - last index
\* time of the first), a total-frame difference converted back to a Time.
C1_DurationInference ==
    pc = "done" =>
        \A ts \in ReturnedTrackLists : \A i \in 1..(Len(ts) - 1) :
            (Len(ts[i].index) > 0 /\ Len(ts[i + 1].index) > 0) =>
                ts[i].duration =
                    Some(from_frames(total_frames(FirstIndexTime(ts[i + 1]))
                                     - total_frames(LastIndexTime(ts[i]))))

\* C1 witness: two tracks with one INDEX 01 each, 00:00:10 and 01:00:05; the
\* first track's duration is 00:59:70.
C1_Witness ==
    /\ pc = "done"
    /\ Len(Returned.files) = 1
    /\ LET ts == Returned.files[1].tracks
       IN  /\ Len(ts) = 2
           /\ ts[1].index = <<<<1, new(0, 0, 10)>>>>
           /\ ts[2].index = <<<<1, new(1, 0, 5)>>>>
           /\ ts[1].duration = Some(new(0, 59, 70))

\* C2 as stated: the album title and every track's title are mandatory, so
\* parse never returns Ok with an absent album title or an absent track
\* title.
C2_MissingTitleIsError ==
    (pc = "done" /\ result[1].ok) =>
        /\ Returned.title # None
        /\ \A ts \in ReturnedTrackLists : \A i \in 1..Len(ts) : ts[i].title # None

PregapErrors ==
    {"Pregap is the last command in the track!", "Pregap is not followed by an index!"}

\* C3 as stated: when assembling a track block fails on a PREGAP (the last
\* command, or not followed by an INDEX), parse returns that error.
C3_FailFast ==
    (pc = "done" /\ \E i \in 1..Len(raised) : raised[i] \in PregapErrors) =>
        ~result[1].ok

\* the positions of the File commands of a sheet
FilePositions(s) == {i \in 1..Len(s) : s[i].kind = "File"}

\* header commands, then FILE blocks: each a File command followed by one or
\* more track blocks of Track, then Title/Performer/Index commands
WellFormedSheet(s) ==
    LET h == HeaderLen(s)
    IN  /\ h < Len(s)
        /\ s[h + 1].kind = "File"
        /\ \A i \in (h + 1)..Len(s) :
              /\ s[i].kind \in {"File", "Track", "Title", "Performer", "Index"}
              /\ s[i].kind = "File" => (i < Len(s) /\ s[i + 1].kind = "Track")

\* the position of the k-th File command of a sheet
FilePosition(s, k) ==
    CHOOSE i \in FilePositions(s) :
        Cardinality({j \in FilePositions(s) : j < i}) = k - 1

\* the Track commands of the k-th FILE block of a sheet
TrackPositions(s, k) ==
    LET from == FilePosition(s, k)
    IN  {i \in (from + 1)..Len(s) :
            /\ s[i].kind = "Track"
            /\ \A j \in (from + 1)..i : s[j].kind # "File"}

\* C4 as stated: a sheet of header commands and k FILE blocks gives exactly
\* k files in source order, each with all of its tracks.
C4_MultiFileAssembly ==
    (pc = "done" /\ WellFormedSheet(sheet)) =>
        /\ result[1].ok
        /\ Len(Returned.files) = Cardinality(FilePositions(sheet))
        /\ \A k \in 1..Len(Returned.files) :
              /\ Returned.files[k].name = sheet[FilePosition(sheet, k)].name
              /\ Len(Returned.files[k].tracks)
                    = Cardinality(TrackPositions(sheet, k))

IsIndexing(c) == c.kind \in {"Pregap", "Index"}

\* C5: in an assembled track, PREGAP p immediately followed by INDEX n t
\* gives the entry (0, t - p) immediately before (n, t), t - p being the
\* total-frame difference converted back to a Time; explicit INDEX entries
\* are kept unchanged and in the order met.
C5_PregapSynthesis ==
    \A q \in Assembled :
        LET t == TracksOfOpened(q[1])[q[2]]
            b == blocks[q[1]][q[2]]
            x == SelectSeq(b, IsIndexing)
        IN  /\ \A k \in 1..(Len(b) - 1) :
                  (b[k].kind = "Pregap" /\ b[k + 1].kind = "Index") =>
                      \E j \in 1..(Len(t.index) - 1) :
                          /\ t.index[j] =
                                <<0, from_frames(total_frames(b[k + 1].time)
                                                 - total_frames(b[k].time))>>
                          /\ t.index[j + 1] = <<b[k + 1].number, b[k + 1].time>>
            /\ Len(t.index) = Len(x)
            /\ \A j \in 1..Len(x) :
                  x[j].kind = "Index" => t.index[j] = <<x[j].number, x[j].time>>

\* C5 witness: a returned track assembled from PREGAP 00:00:20 and
\* INDEX 01 01:00:05 has the entries (0, 00:59:60), (1, 01:00:05).
C5_Witness ==
    /\ pc = "done"
    /\ \E ts \in ReturnedTrackLists : \E i \in 1..Len(ts) :
          ts[i].index = <<<<0, new(0, 59, 60)>>, <<1, new(1, 0, 5)>>>>

\* C6: in the Tracklist returned, a track has a duration only if a later
\* track follows it in its file; the last track of a file has none.
C6_LastTrackNoDuration ==
    pc = "done" =>
        \A ts \in ReturnedTrackLists : \A i \in 1..Len(ts) :
            ts[i].duration # None => i < Len(ts)

\* C6 witness: a returned file of three tracks, the first two with a
\* duration and the last without.
C6_Witness ==
    /\ pc = "done"
    /\ \E ts \in ReturnedTrackLists :
          /\ Len(ts) = 3
          /\ ts[1].duration # None
          /\ ts[2].duration # None
          /\ ts[3].duration = None
          /\ Len(ts[3].index) > 0

-----------------------------------------------------------------------------
(* Properties of the Time functions (checked under SpecTime).              *)

\* a Time as a cue sheet can state it: seconds 0-59, frames 0-74, minutes >= 0
IsValidTime(t) == t.mins >= 0 /\ t.secs \in 0..59 /\ t.frames \in 0..(FPS - 1)

\* C7: the difference of two valid Times is a valid Time (a non-negative
\* frame count, seconds in 0-59, frames in 0-74), a - a is 00:00:00, and a
\* right-hand side larger than the left never gives negative components.
C7_SubStaysValid ==
    (t_op = "sub" /\ IsValidTime(t_self) /\ IsValidTime(t_rhs)) =>
        /\ total_frames(t_out) >= 0
        /\ IsValidTime(t_out)
        /\ (t_self = t_rhs => t_out = Zero)

\* C8: from_frames(t.total_frames()) = t for every valid Time t, and for
\* every n >= 0 from_frames(n) has frames in [0,75), seconds in [0,60) and
\* total_frames() = n.
C8_FrameRoundTrip ==
    /\ (t_op = "round_trip" /\ IsValidTime(t_self)) => t_out = t_self
    /\ (t_op = "from_frames" /\ t_from >= 0) =>
          /\ t_out.frames \in 0..(FPS - 1)
          /\ t_out.secs \in 0..59
          /\ total_frames(t_out) = t_from

\* C8 witness: a Time with a carry in every component went through
\* total_frames and from_frames and came back.
C8_Witness ==
    /\ t_op = "round_trip"
    /\ t_self = new(1, 59, 74)
    /\ t_out = new(1, 59, 74)

\* C9 as stated: parsing the display of any Time succeeds and gives it back.
C9_DisplayParseAnyTime ==
    t_op = "display_parse" => (t_parsed.ok /\ t_parsed.val = t_self)

\* C9 amended: parsing the display of a valid Time of at most 99 minutes
\* succeeds and gives that Time back.
C9_DisplayParseTwoDigitMinutes ==
    (t_op = "display_parse" /\ IsValidTime(t_self) /\ t_self.mins <= 99) =>
        (t_parsed.ok /\ t_parsed.val = t_self)

\* C9 witness: 99:59:74 was displayed as eight characters and parsed back.
C9_Witness ==
    /\ t_op = "display_parse"
    /\ t_self = new(99, 59, 74)
    /\ t_s = <<"9", "9", ":", "5", "9", ":", "7", "4">>
    /\ t_parsed = Ok(new(99, 59, 74))

\* the string of the last command of the given kind among the first h
\* commands of the sheet, None when there is none
LastOfHeader(kind, h) ==
    LET at == {i \in 1..h : sheet[i].kind = kind}
    IN  IF at = {} THEN None
        ELSE Some(sheet[CHOOSE i \in at : \A j \in at : j <= i].s)

C17_ChainBreak ==
    /\ pc = "done" =>
          \A ts \in ReturnedTrackLists : \A i \in 1..Len(ts) :
              Len(ts[i].index) = 0 =>
                  /\ ts[i].duration = None
                  /\ i > 1 => ts[i - 1].duration = None
    /\ pc \in {"file", "track"} =>
          LET n == Len(file.tracks)
          IN  file.last_time =
                  IF n > 0 /\ Len(file.tracks[n].index) > 0
                  THEN Some(LastIndexTime(file.tracks[n]))
                  ELSE None

\* C17 witness: three tracks, the second without index entries, the first and
\* the third with one: none of them has a duration.
C17_Witness ==
    /\ pc = "done"
    /\ \E ts \in ReturnedTrackLists :
          /\ Len(ts) = 3
          /\ Len(ts[1].index) > 0 /\ Len(ts[2].index) = 0 /\ Len(ts[3].index) > 0
          /\ \A i \in 1..3 : ts[i].duration = None

\* a step removes nothing, or the first command of a list that is not empty
RemovesFront ==
    commands' # commands => Len(commands) > 0 /\ commands' = Tail(commands)

\* a step of a file's track loop changes no pushed track but the last one,
\* and that one only when it pushes the next track
WritesOntoPreceding ==
    (pc \in {"file", "track"} /\ pc' \in {"file", "track"}) =>
        \A j \in 1..Len(file.tracks) :
            /\ j <= Len(file'.tracks)
            /\ file'.tracks[j] # file.tracks[j] =>
                  /\ j = Len(file.tracks)
                  /\ Len(file'.tracks) = j + 1
                  /\ file.last_time # None

\* the files already returned by TrackFile::consume stay as they are
ClosedFilesKept ==
    /\ Len(files') >= Len(files)
    /\ \A i \in 1..Len(files) : files'[i] = files[i]

\* C18: a command is removed only from the front of a list that is not
\* empty; last_time is Some only when the file has a track and the last one
\* has an index entry, so the write onto tracks[len - 1] has a track to go
\* to; a duration is written only onto the track before the one pushed.
C18_NoPanic ==
    /\ [](pc \in {"file", "track"} =>
            (file.last_time # None =>
                /\ Len(file.tracks) >= 1
                /\ Len(file.tracks[Len(file.tracks)].index) >= 1))
    /\ [][RemovesFront /\ WritesOntoPreceding /\ ClosedFilesKept]_vars

\* C18 witness: a second track was pushed while last_time was Some, and the
\* duration went onto the first.
C18_Witness ==
    /\ pc = "file"
    /\ Len(file.tracks) = 2
    /\ file.tracks[1].duration # None
    /\ file.last_time # None

-----------------------------------------------------------------------------
(* Properties of the command parser (checked under SpecCue).               *)

RECURSIVE Flatten(_)
Flatten(ss) == IF Len(ss) = 0 THEN <<>> ELSE ss[1] \o Flatten(Tail(ss))

\* the tokens taken so far, followed by the tokens left, are the input
NothingLostOrReordered == Flatten(consumed) \o cue_tokens = cue_input

\* the input from the token at which the k-th Command::consume call began
InputFrom(k) ==
    SubSeq(cue_input, Len(Flatten(SubSeq(consumed, 1, k - 1))) + 1, Len(cue_input))

\* the command a keyword, in upper case, stands for
KeywordKind(u) ==
    CASE u = <<"C", "A", "T", "A", "L", "O", "G">> -> "Catalog"
      [] u = <<"C", "D", "T", "E", "X", "T", "F", "I", "L", "E">> -> "Cdtextfile"
      [] u = <<"F", "I", "L", "E">> -> "File"
      [] u = <<"F", "L", "A", "G", "S">> -> "Flags"
      [] u = <<"I", "N", "D", "E", "X">> -> "Index"
      [] u = <<"I", "S", "R", "C">> -> "Isrc"
      [] u = <<"P", "E", "R", "F", "O", "R", "M", "E", "R">> -> "Performer"
      [] u = <<"P", "O", "S", "T", "G", "A", "P">> -> "Postgap"
      [] u = <<"P", "R", "E", "G", "A", "P">> -> "Pregap"
      [] u = <<"R", "E", "M">> -> "Rem"
      [] u = <<"S", "O", "N", "G", "W", "R", "I", "T", "E", "R">> -> "Songwriter"
      [] u = <<"T", "I", "T", "L", "E">> -> "Title"
      [] u = <<"T", "R", "A", "C", "K">> -> "Track"
      [] OTHER -> "none"

\* the kinds of the tokens a command takes after its keyword
SlotKinds(kind) ==
    CASE kind = "Catalog" -> <<"Number">>
      [] kind = "Cdtextfile" -> <<"String">>
      [] kind = "File" -> <<"String", "String">>
      [] kind = "Flags" -> <<>>
      [] kind = "Index" -> <<"Number", "Time">>
      [] kind = "Isrc" -> <<"String">>
      [] kind = "Performer" -> <<"String">>
      [] kind = "Postgap" -> <<"Time">>
      [] kind = "Pregap" -> <<"Time">>
      [] kind = "Rem" -> <<"String", "Any">>
      [] kind = "Songwriter" -> <<"String">>
      [] kind = "Title" -> <<"String">>
      [] kind = "Track" -> <<"Number", "String">>

IsKeyword(token, kind) ==
    token.kind = "String" /\ KeywordKind(to_uppercase(token.str)) = kind

IsFlag(token) ==
    token.kind = "String" /\ to_uppercase(token.str) \in TrackFlagKeywords

\* the flag a flag keyword, in upper case, stands for
FlagTable(u) ==
    CASE u = <<"D", "C", "P">> -> Dcp
      [] u = <<"4", "C", "H">> -> FourChannel
      [] u = <<"P", "R", "E">> -> Pre
      [] u = <<"S", "C", "M", "S">> -> Scms

\* ts begins with a command whose keyword is unknown, whose tokens run out,
\* or one of whose tokens has the wrong kind
Malformed(ts) ==
    \/ ts[1].kind # "String"
    \/ IsKeyword(ts[1], "none")
    \/ LET kind == KeywordKind(to_uppercase(ts[1].str))
       IN  /\ kind # "Flags"
           /\ \E i \in 1..Len(SlotKinds(kind)) :
                 \/ Len(ts) < 1 + i
                 \/ SlotKinds(kind)[i] \notin {"Any", ts[1 + i].kind}

\* ts begins with a FILE or TRACK command whose last string is no keyword of
\* its enum, or with a FLAGS keyword that no flag follows
SubParseFails(ts) ==
    \/ /\ IsKeyword(ts[1], "File") /\ Len(ts) >= 3 /\ ts[3].kind = "String"
       /\ to_uppercase(ts[3].str) \notin FileFormatKeywords
    \/ /\ IsKeyword(ts[1], "Track") /\ Len(ts) >= 3 /\ ts[3].kind = "String"
       /\ to_uppercase(ts[3].str) \notin TrackTypeKeywords
    \/ /\ IsKeyword(ts[1], "Flags")
       /\ Len(ts) = 1 \/ ~IsFlag(ts[2])

\* the command is the one its keyword names, and took the keyword and one
\* token of the right kind per slot
WellFormed(took, cmd) ==
    /\ IsKeyword(took[1], cmd.kind)
    /\ cmd.kind # "Flags" =>
          /\ Len(took) = 1 + Len(SlotKinds(cmd.kind))
          /\ \A i \in 1..Len(SlotKinds(cmd.kind)) :
                SlotKinds(cmd.kind)[i] \in {"Any", took[1 + i].kind}
    /\ cmd.kind = "Rem" => cmd.key = took[2].str /\ cmd.value = took[3]

CueOk == cue_pc = "done" /\ cue_result[1].ok
CueErr == cue_pc = "done" /\ ~cue_result[1].ok

\* C14: the commands take the tokens from left to right, every token for one
\* command, each command its keyword and one token of the right kind per
\* slot (REM its key and one token of any kind, kept as it is); Ok is
\* returned with the commands in the order of their keywords when no token
\* is left; a command whose keyword is unknown, whose tokens run out or one
\* of whose tokens has the wrong kind never yields a command, and the error
\* returned is the one of the first command that fails.
C14_TokenConsumption ==
    cue_pc # "idle" =>
        /\ NothingLostOrReordered
        /\ Len(consumed) = Len(cue_commands) + (IF CueErr THEN 1 ELSE 0)
        /\ \A k \in 1..Len(cue_commands) :
              /\ WellFormed(consumed[k], cue_commands[k])
              /\ ~Malformed(InputFrom(k))
        /\ CueOk => cue_tokens = <<>> /\ cue_result[1].val = cue_commands
        /\ CueErr =>
              LET ts == InputFrom(Len(consumed))
              IN  Malformed(ts) \/ SubParseFails(ts)
        /\ (cue_pc = "loop" /\ Len(cue_tokens) > 0 /\ Malformed(cue_tokens))
              => ~Command_consume(cue_tokens).res.ok

\* C14 witness: two commands were returned, the first a REM that kept a Time
\* token as its value.
C14_Witness ==
    /\ CueOk
    /\ Len(cue_commands) = 2
    /\ cue_commands[1].kind = "Rem"
    /\ cue_commands[1].value.kind = "Time"
    /\ Len(cue_input) = 5

\* the number of flag tokens ts begins with
FlagRun(ts) ==
    CHOOSE n \in 0..Len(ts) :
        /\ \A i \in 1..n : IsFlag(ts[i])
        /\ n = Len(ts) \/ ~IsFlag(ts[n + 1])

\* C15: a FLAGS command takes its keyword and the longest run of flag tokens
\* that follows, records their flags in order, and leaves the tokens after
\* the run as they were; with no flag after the keyword it is an error.
C15_FlagsPrefix ==
    cue_pc # "idle" =>
        /\ NothingLostOrReordered
        /\ \A k \in 1..Len(consumed) :
              IsKeyword(consumed[k][1], "Flags") =>
                  LET took == consumed[k]
                      after == Tail(InputFrom(k))
                      n == FlagRun(after)
                  IN  /\ Len(took) = 1 + n
                      /\ n > 0 =>
                            /\ k <= Len(cue_commands)
                            /\ cue_commands[k] =
                                  Flags([i \in 1..n |->
                                      FlagTable(to_uppercase(after[i].str))])
                      /\ n = 0 =>
                            /\ CueErr /\ k = Len(consumed)
                            /\ cue_tokens = after

\* C15 witness: a FLAGS command with three flags was followed by another
\* command, which took the token that ended the run.
C15_Witness ==
    /\ CueOk
    /\ Len(cue_commands) = 2
    /\ cue_commands[1].kind = "Flags"
    /\ Len(cue_commands[1].flags) = 3
    /\ ~IsFlag(consumed[2][1])

-----------------------------------------------------------------------------
(* Termination of the three stages (checked under SpecStages).             *)

\* how deep in its loops a stage is; 0 when it has returned or does not run
LexRank == CASE lex_pc = "start" -> 2 [] lex_pc = "loop" -> 1 [] OTHER -> 0
CueRank == IF cue_pc = "loop" THEN 1 ELSE 0
AsmRank ==
    CASE pc = "header" -> 4
      [] pc = "track"  -> 3
      [] pc = "file"   -> 2
      [] pc = "files"  -> 1
      [] OTHER         -> 0

\* a natural number that no stage can decrease for ever: what is left of the
\* source, of the tokens and of the commands, and the depth in the loops
Variant ==
    (Len(chars) + 1 - position) + LexRank
    + 2 * Len(cue_tokens) + CueRank
    + 2 * Len(commands) + AsmRank

\* an iteration of the loop of tokenize moves the reader forward
LexAdvances ==
    (lex_pc = "loop" /\ lex_pc' = "loop") => position' > position

\* a Command::consume call in parse_cue removes a token or returns an error
CueAdvances ==
    cue_pc = "loop" =>
        \/ Len(cue_tokens') < Len(cue_tokens)
        \/ cue_pc' = "done" /\ ~cue_result'[1].ok
        \/ cue_pc' = "done" /\ Len(cue_tokens) = 0

\* an iteration of a loop of the assembler shortens the list or leaves the loop
AsmAdvances ==
    AsmRank > 0 =>
        \/ Len(commands') < Len(commands)
        \/ commands' = commands /\ AsmRank' < AsmRank

\* C19: every step of tokenize, parse_cue and Tracklist::parse decreases a
\* natural number, so each of them takes finitely many steps on a finite
\* input. In particular each iteration of tokenize moves the reader forward,
\* each Command::consume call removes a token or is an error, and each
\* iteration of an assembler loop shortens the command list or leaves the
\* loop.
C19_Terminates ==
    /\ [](Variant \in Nat)
    /\ [][Variant' < Variant /\ LexAdvances /\ CueAdvances /\ AsmAdvances]_vars

\* C19 witness: the assembler returned after it had drained a sheet of seven
\* commands through its header, file and track loops.
C19_Witness ==
    /\ pc = "done"
    /\ Len(sheet) = 7
    /\ Len(commands) = 0
    /\ Len(Returned.files) = 1
    /\ Len(Returned.files[1].tracks) >= 2

====
